---- MODULE Spec2Model ----
(***************************************************************************)
(* A model of stormgls.py: the Storm language server.  One event loop      *)
(* services the LSP handlers (lsinit, did_change, hover, autocomplete,     *)
(* document_symbol, semantic_tokens); every handler reads and writes the   *)
(* fields of the one StormLanguageServer object (diagnostics, query,       *)
(* completions, tkns).  Strings are TLA+ strings; a Python dict is a       *)
(* sequence of [k, v] pairs in insertion order; a syntax tree node is a    *)
(* record with its kind, text, 1-based span and kids.                      *)
(***************************************************************************)
EXTENDS Integers, Sequences, FiniteSets, TLC

\* ---------------------------------------------------------------- bounds

\* Largest number of top-level function declarations in a generated document.
MaxFuncs == 3
\* Largest line and column of a generated syntax error or highlight candidate.
MaxLine == 3
MaxCol == 3
\* Largest number of highlight candidates in a generated candidate list.
MaxTkns == 2
\* Largest document version the client sends.
MaxVersion == 2

\* ------------------------------------------------------- python built-ins

\* str.startswith
startswith(s, p) == Len(p) <= Len(s) /\ SubSeq(s, 1, Len(p)) = p

\* dict: a sequence of [k, v] pairs, insertion ordered, keys unique.
EmptyDict == <<>>
DictKeys(d) == {d[i].k : i \in DOMAIN d}
DictHas(d, k) == k \in DictKeys(d)
\* dict.get(k): None when the key is missing
None == [none |-> TRUE]
DictGet(d, k) ==
    IF DictHas(d, k) THEN d[CHOOSE i \in DOMAIN d : d[i].k = k].v ELSE None
\* d[k] = v
DictPut(d, k, v) ==
    IF DictHas(d, k)
    THEN [i \in DOMAIN d |-> IF d[i].k = k THEN [k |-> k, v |-> v] ELSE d[i]]
    ELSE Append(d, [k |-> k, v |-> v])

\* sequence helpers
RECURSIVE SeqConcat(_)
SeqConcat(ss) == IF ss = <<>> THEN <<>> ELSE Head(ss) \o SeqConcat(Tail(ss))
SeqOfLen(S, n) == UNION {[1..m -> S] : m \in 0..n}

\* ------------------------------------------------------ module constants

JSONEXPR == {"lib.null", "lib.false", "lib.true"}
TokenTypes == <<"keyword", "variable", "function", "operator", "parameter",
                "type", "string", "comment", "property", "interface">>
LSSOURCE == "stormgls"
\* (a backquote of a message is written ' here: TLA+ strings hold no backquote)
\* TokenModifier (enum.IntFlag, enum.auto): the bits of deprecated and defaultLibrary
TM_deprecated == 1
TM_defaultLibrary == 4
\* s_version.verstring of the running system, and an older release
verstring == "1.1.0"
OldVersion == "1.0.0"

\* ------------------------------------------------------------ syntax tree

\* s_ast node: kind is the class, text is getAstText(), lines/columns are the
\* 1-based span getPosInfo() reports; haspos = FALSE is a node whose
\* getPosInfo() raises.
Node(kind, text, lines, columns, kids) ==
    [kind |-> kind, text |-> text, lines |-> lines, columns |-> columns,
     kids |-> kids, haspos |-> TRUE, n2 |-> FALSE]
Leaf(kind, text, line, col) ==
    Node(kind, text, <<line, line>>, <<col, col + Len(text)>>, <<>>)
getPosInfo(kid) == [lines |-> kid.lines, columns |-> kid.columns]

posToRange(pos) ==
    [start |-> [line |-> pos.lines[2] - 1, character |-> pos.columns[1] - 1],
     end |-> [line |-> pos.lines[2] - 1, character |-> pos.columns[2] - 1]]

makeDiagnoticMesg(mesg, pos) ==
    [message |-> mesg, severity |-> "Warning", range |-> posToRange(pos),
     source |-> LSSOURCE]

\* ------------------------------------------------------- Metadata Index

\* s_stormtypes.registry.iterLibs(): (path, lib) with the lib's deprecation
\* marker and its locals.  A local's type is a dict ({'type': 'function', ...}
\* or another structural descriptor) or a plain type name.
FuncType == [isdict |-> TRUE, type |-> "function", args |-> <<>>, returns |-> "any"]
GtorType == [isdict |-> TRUE, type |-> "gtor", returns |-> "str"]
StrType == [isdict |-> FALSE, type |-> "str"]
NoDepr == [eolvers |-> FALSE, eoldate |-> FALSE, present |-> FALSE]
Registry ==
    << [path |-> <<>>, libdepr |-> FALSE, locals |->
          << [name |-> "len", desc |-> "Get the length.", type |-> FuncType,
              deprecated |-> NoDepr],
             [name |-> "list", desc |-> "Get a list.", type |-> FuncType,
              deprecated |-> [eolvers |-> TRUE, eoldate |-> FALSE, present |-> TRUE]],
             [name |-> "old", desc |-> "", type |-> FuncType,
              deprecated |-> [eolvers |-> FALSE, eoldate |-> TRUE, present |-> TRUE]],
             [name |-> "soft", desc |-> "Soft.", type |-> FuncType,
              deprecated |-> [eolvers |-> FALSE, eoldate |-> FALSE, present |-> TRUE]],
             [name |-> "ver", desc |-> "The version.", type |-> StrType,
              deprecated |-> NoDepr] >>],
       [path |-> <<"legacy">>, libdepr |-> TRUE, locals |->
          << [name |-> "val", desc |-> "A legacy value.", type |-> GtorType,
              deprecated |-> NoDepr] >>] >>

\* core.getModelDict() and core.stormcmds of the test core
ModelDict ==
    [types |->
        << [k |-> "inet:ip", v |-> [info |-> [doc |-> "An IP address."]]],
           [k |-> "old:form", v |-> [info |-> [doc |-> "An old form.",
                                               deprecated |-> TRUE]]],
           [k |-> "int", v |-> [info |-> [doc |-> "An integer."]]] >>,
     forms |->
        << [k |-> "inet:ip", v |-> [props |->
              << [k |-> "asn", v |-> [full |-> "inet:ip:asn", name |-> "asn",
                                      doc |-> "The ASN.", type |-> <<"int", "{}">>]] >>]],
           [k |-> "old:form", v |-> [props |->
              << [k |-> "seen", v |-> [full |-> "old:form:seen", name |-> "seen",
                                       doc |-> "", deprecated |-> TRUE,
                                       type |-> <<"time", "{}">>]] >>]] >>]
StormCmds ==
    << [k |-> "help", v |-> [brief |-> "List commands.", help |-> "Usage: help"]] >>

\* dict.get(field, default) on a record
GetOr(rec, field, default) == IF field \in DOMAIN rec THEN rec[field] ELSE default

\* '.'.join(('lib',) + path)
RECURSIVE JoinDot(_)
JoinDot(parts) ==
    IF Len(parts) = 1 THEN parts[1] ELSE parts[1] \o "." \o JoinDot(Tail(parts))

\* the entry loadCompletions stores for one local of one lib
LibInfo(lib, lcl) ==
    LET libdepr == lib.libdepr
        depr == IF lcl.deprecated.present
                    /\ (lcl.deprecated.eolvers \/ lcl.deprecated.eoldate)
                THEN TRUE ELSE libdepr
    IN [k |-> "$" \o JoinDot(<<JoinDot(<<"lib">> \o lib.path), lcl.name>>),
        v |-> [doc |-> lcl.desc, type |-> lcl.type, deprecated |-> depr]]

\* completions['formtypes']: one entry per type, with its props when a form
FormTypes(model) ==
    [i \in DOMAIN model.types |->
        LET name == model.types[i].k
            base == [doc |-> GetOr(model.types[i].v.info, "doc", ""),
                     deprecated |-> GetOr(model.types[i].v.info, "deprecated", FALSE)]
        IN [k |-> name,
            v |-> IF DictHas(model.forms, name)
                  THEN [doc |-> base.doc, deprecated |-> base.deprecated,
                        props |-> DictGet(model.forms, name).props]
                  ELSE base]]

\* completions['props']: one entry per property of a form, keyed by full name
Props(model) ==
    SeqConcat([i \in DOMAIN model.forms |->
        [j \in DOMAIN model.forms[i].v.props |->
            LET propinfo == model.forms[i].v.props[j].v
            IN [k |-> propinfo.full,
                v |-> [doc |-> GetOr(propinfo, "doc", ""),
                       deprecated |-> GetOr(propinfo, "deprecated", FALSE),
                       type |-> GetOr(propinfo, "type", <<>>)]]]])

\* completions['cmds']
Cmds(stormcmds) ==
    [i \in DOMAIN stormcmds |->
        [k |-> stormcmds[i].k,
         v |-> [doc |-> stormcmds[i].v.brief, deprecated |-> FALSE,
                help |-> stormcmds[i].v.help]]]

loadCompletions ==
    [version |-> verstring,
     libs |-> SeqConcat([i \in DOMAIN Registry |->
                 [j \in DOMAIN Registry[i].locals |->
                     LibInfo(Registry[i], Registry[i].locals[j])]]),
     formtypes |-> FormTypes(ModelDict),
     props |-> Props(ModelDict),
     cmds |-> Cmds(StormCmds),
     functions |-> EmptyDict]

\* the snapshot an older release left in the cache file
OldCompletions ==
    [loadCompletions EXCEPT !.version = OldVersion,
                            !.libs = SubSeq(loadCompletions.libs, 1, 2)]

\* StormLanguageServer.__init__: the pre-build index
EmptyCompletions ==
    [version |-> verstring, libs |-> EmptyDict, formtypes |-> EmptyDict,
     props |-> EmptyDict, cmds |-> EmptyDict, functions |-> EmptyDict]

\* s_msgpack.en / s_msgpack.un: a map is packed as its key/value pairs in order
MpkKeys == <<"version", "libs", "formtypes", "props", "cmds", "functions">>
msgpack_en(completions) ==
    [i \in DOMAIN MpkKeys |-> <<MpkKeys[i], completions[MpkKeys[i]]>>]
msgpack_un(byts) ==
    [key \in {byts[i][1] : i \in DOMAIN byts} |->
        byts[CHOOSE i \in DOMAIN byts : byts[i][1] = key][2]]

\* -------------------------------------------------- Symbol Table Builder

\* the info dict of one declared parameter
ArgInfo(arg) ==
    IF arg.kind = "CallKwarg"
    THEN [name |-> arg.text, default |-> arg.kids[2].text]
    ELSE [name |-> arg.text]

\* a duplicate warning that keeps the whole span of the second definition
DuplicateWarningWholeSpan(name, olddef, pos) ==
    makeDiagnoticMesg("function " \o name \o " is already defined on line "
                          \o ToString(olddef.start), pos)

\* the warning for a second definition of name: the span is cut to its first
\* line before the range is taken
DuplicateWarning(name, olddef, pos) ==
    LET pos1 == [pos EXCEPT !.lines = <<pos.lines[1], pos.lines[1]>>]
    IN makeDiagnoticMesg("function " \o name \o " is already defined on line "
                             \o ToString(olddef.start), pos1)

RECURSIVE getFuncDefsLoop(_, _, _)
getFuncDefsLoop(kids, functions, warnings) ==
    IF kids = <<>> THEN [functions |-> functions, warnings |-> warnings]
    ELSE LET kid == Head(kids) IN
        IF kid.kind # "Function"
        THEN getFuncDefsLoop(Tail(kids), functions, warnings)
        ELSE LET name == kid.kids[1].text
                 pos == getPosInfo(kid)
             IN IF DictHas(functions, name)
                THEN getFuncDefsLoop(Tail(kids), functions,
                         Append(warnings,
                                DuplicateWarning(name, DictGet(functions, name), pos)))
                ELSE getFuncDefsLoop(Tail(kids),
                        DictPut(functions, name,
                            [body |-> kid.kids[3].text,
                             start |-> pos.lines[1],
                             end |-> pos.lines[2],
                             args |-> [i \in DOMAIN kid.kids[2].kids |->
                                          ArgInfo(kid.kids[2].kids[i])]]),
                        warnings)

\* getFuncDefs(query): reads and extends self.completions['functions']
getFuncDefs(functions, query) == getFuncDefsLoop(query.kids, functions, <<>>)

\* ------------------------------------------- Tree Walker / Diagnostic Engine

NoWarn == [w |-> <<>>, ok |-> TRUE]
Raise == [w |-> <<>>, ok |-> FALSE]

\* funcCheck(kid): ok = FALSE when an index or position lookup raises
funcCheck(libs, kid) ==
    IF Len(kid.kids) = 0 THEN Raise
    ELSE LET func == "$" \o kid.kids[1].text
             head == kid.kids[1]
             warn(mesg) == IF head.haspos
                           THEN [w |-> <<makeDiagnoticMesg(mesg, getPosInfo(head))>>,
                                 ok |-> TRUE]
                           ELSE Raise
         IN IF func \in {"$lib.print", "$lib.warn"} /\ Len(kid.kids) - 1 >= 2
            THEN IF Len(kid.kids[3].kids) > 0
                 THEN warn("Prefer backtick format strings")
                 ELSE NoWarn
            ELSE IF func = "$lib.list"
            THEN warn(func \o " is deprecated. Prefer '([])'.")
            ELSE IF func = "$lib.dict"
            THEN warn(func \o " is deprecated. Prefer '({})'.")
            ELSE IF DictHas(libs, func)
            THEN IF DictGet(libs, func).deprecated = TRUE
                 THEN warn(func \o " is deprecated")
                 ELSE NoWarn
            ELSE NoWarn

\* one highlight candidate: ((line, col), node, hinted type)
Tkn(pos, node, type) == <<<<pos.lines[1], pos.columns[1]>>, node, type>>

Visited(w, t, ok) == [w |-> w, t |-> t, ok |-> ok]

\* the body of cleanCheck's loop for one node with a position: the warnings
\* and candidates it adds, ok = FALSE when it raises
cleanCheckKid(libs, kid) ==
    LET pos == getPosInfo(kid)
        text == kid.text
    IN
    IF kid.kind = "VarDeref" THEN
        IF text \in JSONEXPR
        THEN Visited(<<makeDiagnoticMesg(
                 "Prefer JSON Expression syntax '(" \o SubSeq(text, 5, Len(text))
                     \o ")' over '$" \o text \o "'", pos)>>,
                 <<Tkn(pos, kid, 0)>>, TRUE)
        ELSE IF DictHas(libs, "$" \o text)
        THEN LET rtype == DictGet(libs, "$" \o text).type
             IN IF rtype.isdict /\ rtype.type # "function"
                THEN Visited(<<>>, <<Tkn(pos, kid, 0)>>, TRUE)
                ELSE Visited(<<>>, <<>>, TRUE)
        ELSE Visited(<<>>, <<>>, TRUE)
    ELSE IF kid.kind = "FuncCall" THEN
        LET fc == funcCheck(libs, kid)
        IN IF ~fc.ok THEN Visited(<<>>, <<>>, FALSE)
           ELSE IF startswith(text, "lib.")
           THEN Visited(fc.w, <<Tkn(pos, kid.kids[1], 2)>>, TRUE)
           ELSE Visited(fc.w, <<>>, TRUE)
    ELSE IF kid.kind \in {"LiftPropBy", "LiftProp", "EditNodeAdd"} THEN
        IF Len(kid.kids) = 0 THEN Visited(<<>>, <<>>, FALSE)
        ELSE Visited(<<>>, <<Tkn(pos, kid.kids[1], 8)>>, TRUE)
    ELSE IF kid.kind = "EditEdgeAdd" THEN
        IF Len(kid.kids) < 2 THEN Visited(<<>>, <<>>, FALSE)
        ELSE LET edgename == kid.kids[1].text
                 n2 == kid.kids[2]
             IN IF n2.kind # "SubQuery" THEN Visited(<<>>, <<>>, TRUE)
                ELSE IF Len(n2.kids) = 0 THEN Visited(<<>>, <<>>, FALSE)
                ELSE IF Len(n2.kids[1].kids) = 0 THEN Visited(<<>>, <<>>, FALSE)
                ELSE LET first == n2.kids[1].kids[1]
                     IN IF first.kind # "YieldValu" THEN Visited(<<>>, <<>>, TRUE)
                        ELSE IF Len(first.kids) = 0 THEN Visited(<<>>, <<>>, FALSE)
                        ELSE IF first.kids[1].kind # "VarValue"
                        THEN Visited(<<>>, <<>>, TRUE)
                        ELSE LET vartext == first.kids[1].text
                             IN IF kid.n2 = TRUE
                                THEN Visited(<<makeDiagnoticMesg(
                                    "Prefer '<(" \o edgename \o ")+ $" \o vartext
                                    \o "' over '<(" \o edgename \o ")+ { yield $"
                                    \o vartext \o " }'", pos)>>, <<>>, TRUE)
                                ELSE Visited(<<makeDiagnoticMesg(
                                    "Prefer '+(" \o edgename \o ")> $" \o vartext
                                    \o "' over '+(" \o edgename \o ")> { yield $"
                                    \o vartext \o " }'", pos)>>, <<>>, TRUE)
    ELSE IF kid.kind = "Return" /\ Len(kid.kids) > 0 THEN
        IF ~kid.kids[1].haspos THEN Visited(<<>>, <<>>, FALSE)
        ELSE IF kid.kids[1].text = "lib.null"
        THEN Visited(<<makeDiagnoticMesg(
                 "Prefer 'return()' over 'return($lib.null)'",
                 getPosInfo(kid.kids[1]))>>, <<>>, TRUE)
        ELSE Visited(<<>>, <<>>, TRUE)
    ELSE Visited(<<>>, <<>>, TRUE)

\* cleanCheck's while loop: todo is the queue, tkns is self.tkns
RECURSIVE cleanCheckLoop(_, _, _, _)
cleanCheckLoop(libs, todo, warnings, tkns) ==
    IF todo = <<>> THEN [warnings |-> warnings, tkns |-> tkns, raised |-> FALSE]
    ELSE LET kid == Head(todo) IN
        IF ~kid.haspos
        THEN cleanCheckLoop(libs, Tail(todo), warnings, tkns)
        ELSE LET r == cleanCheckKid(libs, kid)
             IN IF ~r.ok
                THEN [warnings |-> warnings \o r.w, tkns |-> tkns \o r.t,
                      raised |-> TRUE]
                ELSE cleanCheckLoop(libs, Tail(todo) \o kid.kids,
                                    warnings \o r.w, tkns \o r.t)

cleanCheck(libs, tkns, query) == cleanCheckLoop(libs, query.kids, <<>>, tkns)

\* ------------------------------------------------------------ documents

\* What the collaborators make of one source text: parsed is what
\* s_parser.parseQuery returns or raises, lines[i] the matches WORD.finditer
\* finds on line i-1 (start, end, text).
Source(parsed, lines) == [parsed |-> parsed, lines |-> lines]
Parsed(kids) ==
    [ok |-> TRUE, query |-> Node("Query", "", <<1, 1>>, <<1, 1>>, kids)]
BadSyntax(items) == [ok |-> FALSE, items |-> items]
Match(start, text) == [start |-> start, end |-> start + Len(text), text |-> text]

\* a parameter list: positional names and one keyword parameter with a default
Arg(name, line, col) == Leaf("Const", name, line, col)
Kwarg(name, default, line, col) ==
    Node("CallKwarg", name \o "=" \o default, <<line, line>>,
         <<col, col + Len(name) + 1 + Len(default)>>,
         <<Leaf("Const", name, line, col),
           Leaf("Const", default, line, col + Len(name) + 1)>>)
ArgsAB(line) == <<Arg("a", line, 14), Kwarg("b", "(1)", line, 17)>>
ArgsC(line) == <<Arg("c", line, 14)>>

\* function <name>(<args>) { <body> } on lines sline..eline
FunctionBody(name, args, sline, eline, body) ==
    Node("Function", "function " \o name, <<sline, eline>>, <<1, 2>>,
         <<Leaf("Const", name, sline, 10),
           Node("FuncArgs", "", <<sline, sline>>, <<14, 24>>, args),
           Node("Query", "body", <<sline, eline>>, <<26, 1>>, body)>>)
Function(name, args, sline, eline) == FunctionBody(name, args, sline, eline, <<>>)

\* $<path> on one line: a VarDeref over a VarValue and a Const
VarDeref(text, line, col) ==
    Node("VarDeref", text, <<line, line>>, <<col, col + Len(text)>>,
         <<Leaf("VarValue", "lib", line, col),
           Leaf("Const", SubSeq(text, 5, Len(text)), line, col + 4)>>)

\* $<path>(<args>, <kwargs>): callee, CallArgs, CallKwargs
FuncCallArgs(text, args, kwargs, line, col) ==
    Node("FuncCall", text \o "()", <<line, line>>, <<col, col + Len(text) + 2>>,
         <<VarDeref(text, line, col),
           Node("CallArgs", "", <<line, line>>, <<col + Len(text), col + Len(text)>>, args),
           Node("CallKwargs", "", <<line, line>>, <<col + Len(text), col + Len(text)>>,
                kwargs)>>)
FuncCall(text, kwargs, line, col) == FuncCallArgs(text, <<>>, kwargs, line, col)

\* function foo(a, b=(1)) { } then function foo(c) { }
DocDup ==
    Source(
        Parsed(<<Function("foo", ArgsAB(1), 1, 2), Function("foo", ArgsC(3), 3, 4)>>),
        << <<Match(0, "function"), Match(9, "foo"), Match(13, "a"), Match(16, "b"),
             Match(19, "1")>>,
           <<>>,
           <<Match(0, "function"), Match(9, "foo"), Match(13, "c")>>,
           <<>> >>)

\* return($lib.null)
DocRet ==
    Source(
        Parsed(<<Node("Return", "return($lib.null)", <<1, 1>>, <<1, 18>>,
                      <<VarDeref("lib.null", 1, 9)>>)>>),
        << <<Match(0, "return"), Match(7, "$lib.null")>> >>)

\* $lib.old()  /  $lib.legacy.val  /  inet:ip
DocCall ==
    Source(
        Parsed(<<FuncCall("lib.old", <<>>, 1, 2),
                 VarDeref("lib.legacy.val", 2, 2),
                 Node("LiftProp", "inet:ip", <<3, 3>>, <<1, 8>>,
                      <<Leaf("Const", "inet:ip", 3, 1)>>)>>),
        << <<Match(0, "$lib.old")>>, <<Match(0, "$lib.legacy.val")>>,
           <<Match(0, "inet:ip")>> >>)

\* a source the parser rejects at (line, column); token is <<>> when the
\* error names none
ErrItems(mesg, line, column) ==
    <<[k |-> "mesg", v |-> mesg], [k |-> "line", v |-> line],
      [k |-> "column", v |-> column]>>
DocErr(line, column, token) ==
    Source(BadSyntax(ErrItems("Unexpected token", line, column)
                     \o (IF token = <<>> THEN <<>>
                         ELSE <<[k |-> "token", v |-> token[1]]>>)),
           [i \in 1..line |-> <<>>])

\* a text of top-level functions: funcs[i] = <<name, parameters>> is declared
\* on lines 2i-1..2i
DocFuncs(funcs) ==
    Source(
        Parsed([i \in DOMAIN funcs |->
            Function(funcs[i][1],
                     IF funcs[i][2] = "ab" THEN ArgsAB(2 * i - 1) ELSE ArgsC(2 * i - 1),
                     2 * i - 1, 2 * i)]),
        SeqConcat([i \in DOMAIN funcs |->
            << <<Match(0, "function"), Match(9, funcs[i][1])>>
               \o (IF funcs[i][2] = "ab" THEN <<Match(13, "a"), Match(16, "b"), Match(19, "1")>>
                   ELSE <<Match(13, "c")>>),
               <<>> >>]))

\* function foo(a, b=(1)) {
\*     $lib.old($lib.legacy.val)
\* }
DocMain ==
    Source(
        Parsed(<<FunctionBody("foo", ArgsAB(1), 1, 3,
                    <<FuncCallArgs("lib.old", <<VarDeref("lib.legacy.val", 2, 15)>>,
                                   <<>>, 2, 6)>>)>>),
        << <<Match(0, "function"), Match(9, "foo"), Match(13, "a"), Match(16, "b"),
             Match(19, "1")>>,
           <<Match(4, "$lib.old"), Match(13, "$lib.legacy.val")>>,
           <<>> >>)

\* $<text>(): a call whose head is the dereference $<text>
DocCallHead(text) ==
    Source(Parsed(<<FuncCall(text, <<>>, 1, 1)>>), << <<Match(0, "$" \o text)>> >>)

\* an edge edit: [ +(refs)> { yield $n } ], [ <(refs)+ { yield $n } ],
\* [ +(refs)> { inet:ip } ], [ +(refs)> { } ] or [ +(refs)> $n ]
DocEdge(shape) ==
    LET yield == Node("YieldValu", "yield $n", <<1, 1>>, <<13, 21>>,
                      <<Leaf("VarValue", "n", 1, 19)>>)
        lift == Node("LiftProp", "inet:ip", <<1, 1>>, <<13, 20>>,
                     <<Leaf("Const", "inet:ip", 1, 13)>>)
        body == IF shape \in {"yield", "yieldn2"} THEN <<yield>>
                ELSE IF shape = "lift" THEN <<lift>>
                ELSE <<>>
        target == IF shape = "var" THEN Leaf("VarValue", "n", 1, 11)
                  ELSE Node("SubQuery", "", <<1, 1>>, <<11, 23>>,
                            <<Node("Query", "", <<1, 1>>, <<13, 21>>, body)>>)
        edit == Node("EditEdgeAdd", "", <<1, 1>>, <<3, 23>>,
                     <<Leaf("Const", "refs", 1, 5), target>>)
    IN Source(Parsed(<<[edit EXCEPT !.n2 = (shape = "yieldn2")]>>),
              << <<Match(4, "refs"), Match(13, "yield"), Match(19, "$n")>> >>)

\* function foo(<params>) { //  $a  $c   on line sline, closed on line eline,
\* in a text of MaxLine lines that each end in the comment //  $a  $c
DocSpan(params, sline, eline) ==
    Source(
        Parsed(<<Function("foo", IF params = "ab" THEN ArgsAB(sline) ELSE ArgsC(sline),
                          sline, eline)>>),
        [i \in 1..MaxLine |->
            IF i = sline
            THEN <<Match(0, "function"), Match(9, "foo")>>
                 \o (IF params = "ab" THEN <<Match(13, "a"), Match(16, "b"), Match(19, "1")>>
                     ELSE <<Match(13, "c")>>)
                 \o <<Match(28, "$a"), Match(32, "$c")>>
            ELSE <<Match(4, "$a"), Match(8, "$c")>>])

\* The source texts of the model and what the collaborators make of each.
TextMain == [text |-> "main"]
TextRet == [text |-> "ret"]
TextDup == [text |-> "dup"]
TextCall == [text |-> "call"]
TextErr(line, column, token) ==
    [text |-> "err", line |-> line, column |-> column, token |-> token]
TextFuncs(funcs) == [text |-> "funcs", funcs |-> funcs]
\* a one-line text holding word at column 4 and, when short, again at column 13
TextWord(word) == [text |-> "word", word |-> word]
TextEdge(shape) == [text |-> "edge", shape |-> shape]
TextCallHead(head) == [text |-> "callhead", head |-> head]
TextSpan(params, sline, eline) ==
    [text |-> "span", params |-> params, sline |-> sline, eline |-> eline]
Collaborators(source) ==
    CASE source.text = "main" -> DocMain
      [] source.text = "ret" -> DocRet
      [] source.text = "dup" -> DocDup
      [] source.text = "call" -> DocCall
      [] source.text = "err" -> DocErr(source.line, source.column, source.token)
      [] source.text = "funcs" -> DocFuncs(source.funcs)
      [] source.text = "span" -> DocSpan(source.params, source.sline, source.eline)
      [] source.text = "edge" -> DocEdge(source.shape)
      [] source.text = "callhead" -> DocCallHead(source.head)
      [] source.text = "word" ->
            Source(BadSyntax(ErrItems("Unexpected token", 1, 1)),
                   <<IF Len(source.word) >= 9
                     THEN <<Match(4, source.word)>>
                     ELSE <<Match(4, source.word), Match(13, source.word)>> >>)

\* the texts the client sends in the event-loop specification
Sources == {TextMain, TextErr(2, 1, <<>>)}

\* TextDocument.lines, as the matches on each line
DocLines(doc) == Collaborators(doc.source).lines

URIS == {"file:///a.storm", "file:///b.storm"}

\* --------------------------------------------------------------- parse

\* s_parser.parseQuery(document.source): the tree, or BadSyntax with its items
parseQuery(source) == Collaborators(source).parsed

\* the diagnostic parse builds from BadSyntax
BadSyntaxDiagnostic(items) ==
    LET token == IF DictHas(items, "token") THEN DictGet(items, "token") ELSE "1"
        line == DictGet(items, "line")
        column == DictGet(items, "column")
    IN [message |-> DictGet(items, "mesg"),
        severity |-> "Error",
        range |-> [start |-> [line |-> line - 1, character |-> column - 1],
                   end |-> [line |-> line - 1, character |-> column + Len(token)]],
        source |-> LSSOURCE]

\* a parse that walks on top of the Symbol Table and the candidates it finds
parseNoClear(ls, document) ==
    LET res == parseQuery(document.source)
    IN IF ~res.ok
       THEN [ls EXCEPT
               !.diagnostics = DictPut(ls.diagnostics, document.uri,
                   <<document.version, <<BadSyntaxDiagnostic(res.items)>> >>),
               !.raised = FALSE]
       ELSE LET query == res.query
                fd == getFuncDefs(ls.completions.functions, query)
                cc == cleanCheck(ls.completions.libs, ls.tkns, query)
                walked == [ls EXCEPT !.query = query,
                                     !.completions.functions = fd.functions,
                                     !.tkns = cc.tkns]
            IN IF cc.raised
               THEN [walked EXCEPT !.raised = TRUE]
               ELSE [walked EXCEPT
                       !.diagnostics = DictPut(ls.diagnostics, document.uri,
                           <<document.version, fd.warnings \o cc.warnings>>),
                       !.raised = FALSE]

\* parse(document): ls is the server object's fields before, the result its
\* fields after; raised = TRUE when an exception other than BadSyntax escapes
parse(ls, document) ==
    LET cleared == [ls EXCEPT !.completions.functions = EmptyDict, !.tkns = <<>>]
        res == parseQuery(document.source)
    IN IF ~res.ok
       THEN [cleared EXCEPT
               !.diagnostics = DictPut(ls.diagnostics, document.uri,
                   <<document.version, <<BadSyntaxDiagnostic(res.items)>> >>),
               !.raised = FALSE]
       ELSE LET query == res.query
                fd == getFuncDefs(cleared.completions.functions, query)
                cc == cleanCheck(cleared.completions.libs, cleared.tkns, query)
                walked == [cleared EXCEPT !.query = query,
                                          !.completions.functions = fd.functions,
                                          !.tkns = cc.tkns]
            IN IF cc.raised
               THEN [walked EXCEPT !.raised = TRUE]
               ELSE [walked EXCEPT
                       !.diagnostics = DictPut(ls.diagnostics, document.uri,
                           <<document.version, fd.warnings \o cc.warnings>>),
                       !.raised = FALSE]

\* --------------------------------------------------------------- state

VARIABLES
    diagnostics,   \* ls.diagnostics: uri -> (version, diagnostics)
    query,         \* ls.query: the last tree parsed, None before
    completions,   \* ls.completions: the Metadata Index and the Symbol Table
    tkns,          \* ls.tkns: highlight candidates
    docs,          \* ls.workspace: uri -> TextDocument
    cache,         \* the file datadir/completions.mpk: whether it exists, its bytes
    initpc,        \* where the lsinit coroutine is: idle, config, build, teardown, done
    built,         \* lsinit's local completions while it is suspended
    symtask,       \* the suspended document_symbol coroutine: its iterator and retn
    last           \* the handler that ran last and what it returned; for did_change
                   \* also the document it walked and whether the handler before
                   \* it walked the same unchanged document (rewalk)

vars == <<diagnostics, query, completions, tkns, docs, cache, initpc, built,
          symtask, last>>

\* the server object's fields, as parse takes and returns them
ls == [diagnostics |-> diagnostics, query |-> query, completions |-> completions,
       tkns |-> tkns, raised |-> FALSE]

\* -------------------------------------------------------- Hover Resolver

wordAtCursor(lineNum, line, charAt) ==
    LET hits == {i \in DOMAIN line : line[i].start <= charAt /\ charAt <= line[i].end}
    IN IF hits = {} THEN None
       ELSE LET m == line[CHOOSE i \in hits : \A j \in hits : i <= j]
            IN [word |-> m.text,
                rng |-> [start |-> [line |-> lineNum, character |-> m.start],
                         end |-> [line |-> lineNum, character |-> m.end]]]

\* _getHoverInfo(ls, word): (typ, info) of the first section holding word
getHoverInfo(cmpl, word) ==
    IF SubSeq(word, 1, 1) = "$" /\ cmpl.libs # EmptyDict /\ DictHas(cmpl.libs, word)
    THEN [typ |-> "libs", info |-> DictGet(cmpl.libs, word)]
    ELSE IF cmpl.props # EmptyDict /\ DictHas(cmpl.props, word)
    THEN [typ |-> "props", info |-> DictGet(cmpl.props, word)]
    ELSE IF cmpl.formtypes # EmptyDict /\ DictHas(cmpl.formtypes, word)
    THEN [typ |-> "formtypes", info |-> DictGet(cmpl.formtypes, word)]
    ELSE IF cmpl.cmds # EmptyDict /\ DictHas(cmpl.cmds, word)
    THEN [typ |-> "cmds", info |-> DictGet(cmpl.cmds, word)]
    ELSE IF cmpl.functions # EmptyDict /\ DictHas(cmpl.functions, word)
    THEN [typ |-> "function", info |-> DictGet(cmpl.functions, word)]
    ELSE None

\* s_autodoc: the lines of a documentation text, of a callable's arguments
\* and of its return type
prepareRstLines(desc) == <<desc>>
runtimeGetArgLines(rtype) ==
    IF rtype.type = "function" THEN <<"Args:">> ELSE <<>>
runtimeGetReturnLines(rtype) ==
    IF rtype.type = "function" THEN <<"Returns: " \o rtype.returns>> ELSE <<>>

\* the lines hover joins into the markdown text for one (typ, info)
HoverLines(word, typ, info) ==
    LET desc == info.doc
        \* isinstance(rtype, dict): only a library entry's type can be one
        isdict == typ = "libs" /\ info.type.isdict
    IN <<word, "\n">> \o
       (IF isdict
        THEN prepareRstLines(desc) \o <<"\n">> \o runtimeGetArgLines(info.type)
             \o runtimeGetReturnLines(info.type)
        ELSE IF typ = "formtypes"
        THEN prepareRstLines(desc) \o <<"\n", "Props:">> \o
             SeqConcat([i \in DOMAIN info.props |->
                 <<"    :" \o info.props[i].v.name \o "=<" \o info.props[i].v.type[1] \o ">",
                   "        " \o info.props[i].v.doc>>])
        ELSE IF typ = "props"
        THEN prepareRstLines(desc) \o <<"\n">>
             \o prepareRstLines("Type: " \o info.type[1])
             \o prepareRstLines("Opts: " \o info.type[2])
        ELSE IF typ = "cmds"
        THEN <<info.help>>
        ELSE <<>>)

\* hover(ls, params): the Hover, None, or a raise (word[0] of an empty word,
\* info['props'] of a form type without props)
hover(cmpl, doc, line, character) ==
    LET atCursor == wordAtCursor(line, DocLines(doc)[line + 1], character)
    IN IF atCursor = None THEN None
       ELSE LET word == IF SubSeq(atCursor.word, 1, 1) = ":"
                        THEN SubSeq(atCursor.word, 2, Len(atCursor.word))
                        ELSE atCursor.word
                hinfo == getHoverInfo(cmpl, word)
            IN IF word = "" THEN [raised |-> "IndexError"]
               ELSE IF hinfo = None THEN None
               ELSE IF ~("doc" \in DOMAIN hinfo.info) \/ hinfo.info.doc = ""
               THEN None
               ELSE IF hinfo.typ = "formtypes" /\ ~("props" \in DOMAIN hinfo.info)
               THEN [raised |-> "KeyError"]
               ELSE [contents |-> [kind |-> "markdown",
                                   value |-> HoverLines(word, hinfo.typ, hinfo.info)],
                     range |-> [start |-> [line |-> line, character |-> 0],
                                end |-> [line |-> line + 1, character |-> 0]]]

\* ---------------------------------------------------- Completion Resolver

Deprecated == "CompletionItemTag.Deprecated"

\* the items one section of the index contributes for a prefix
SectionItems(section, text, kind, rng) ==
    SeqConcat([i \in DOMAIN section |->
        IF startswith(section[i].k, text)
        THEN <<[label |-> section[i].k, kind |-> kind, detail |-> section[i].v.doc,
                text_edit |-> [new_text |-> section[i].k, range |-> rng],
                tags |-> IF ~section[i].v.deprecated THEN <<>> ELSE <<Deprecated>>]>>
        ELSE <<>>])

\* the items one library entry contributes
LibItems(e, word, rng) ==
    IF startswith(e.k, word)
    THEN <<[label |-> e.k,
            kind |-> IF e.v.type.isdict /\ e.v.type.type = "function"
                     THEN "Function" ELSE "Property",
            detail |-> e.v.doc,
            text_edit |-> [new_text |-> e.k, range |-> rng],
            tags |-> IF ~e.v.deprecated THEN <<>> ELSE <<Deprecated>>]>>
    ELSE <<>>

\* the items one Symbol Table entry contributes: itself, and its parameters
\* when the cursor line is inside its span
FunctionItems(e, word, line, rng) ==
    LET name == "$" \o e.k
        args == e.v.args
    IN (IF startswith(name, word)
        THEN <<[label |-> name, kind |-> "Function",
                text_edit |-> [new_text |-> name, range |-> rng]]>>
        ELSE <<>>)
       \o
       (IF e.v.start <= line /\ line < e.v.end
        THEN SeqConcat([i \in DOMAIN args |->
                 IF startswith("$" \o args[i].name, word)
                 THEN <<[label |-> "$" \o args[i].name, kind |-> "Variable",
                         text_edit |-> [new_text |-> "$" \o args[i].name,
                                        range |-> rng]]>>
                 ELSE <<>>])
        ELSE <<>>)

\* autocomplete(ls, params): the list of CompletionItem
autocomplete(cmpl, doc, line, character) ==
    LET atCursor == wordAtCursor(line, DocLines(doc)[line + 1], character)
    IN IF atCursor = None THEN <<>>
       ELSE LET word == atCursor.word
                rng == atCursor.rng
            IN IF SubSeq(word, 1, 1) = "$"
               THEN SeqConcat([i \in DOMAIN cmpl.libs |-> LibItems(cmpl.libs[i], word, rng)])
                    \o SeqConcat([i \in DOMAIN cmpl.functions |->
                           FunctionItems(cmpl.functions[i], word, line, rng)])
               ELSE SectionItems(cmpl.formtypes, word, "Field", rng)
                    \o SectionItems(cmpl.props, word, "Property", rng)
                    \o SectionItems(cmpl.cmds, word, "Function", rng)

\* ---------------------------------------------------------- Token Encoder

\* (line, col) tuple order of sorted(..., key=lambda k: k[0])
PosLeq(p, q) == p[1] < q[1] \/ (p[1] = q[1] /\ p[2] <= q[2])

\* sorted(): stable, ascending by the key
RECURSIVE InsertTkn(_, _)
InsertTkn(sorted, t) ==
    IF sorted = <<>> THEN <<t>>
    ELSE IF PosLeq(sorted[Len(sorted)][1], t[1]) THEN Append(sorted, t)
    ELSE Append(InsertTkn(SubSeq(sorted, 1, Len(sorted) - 1), t), sorted[Len(sorted)])
RECURSIVE SortTkns(_)
SortTkns(ts) ==
    IF ts = <<>> THEN <<>>
    ELSE InsertTkn(SortTkns(SubSeq(ts, 1, Len(ts) - 1)), ts[Len(ts)])

\* flags |= 1 on the flag values the encoder builds
OrDeprecated(flags) == IF flags % 2 = 1 THEN flags ELSE flags + TM_deprecated

\* the final type and modifier bits of one candidate, resolved at encode time
Classify(cmpl, txt, type) ==
    IF DictHas(cmpl.libs, "$" \o txt)
    THEN LET info == DictGet(cmpl.libs, "$" \o txt)
         IN [type |-> IF ~info.type.isdict THEN 1 ELSE type,
             flags |-> IF info.deprecated = TRUE
                       THEN OrDeprecated(TM_defaultLibrary) ELSE TM_defaultLibrary]
    ELSE IF DictHas(cmpl.formtypes, txt)
    THEN [type |-> type,
          flags |-> IF DictGet(cmpl.formtypes, txt).deprecated = TRUE
                    THEN OrDeprecated(0) ELSE 0]
    ELSE IF DictHas(cmpl.props, txt)
    THEN [type |-> type,
          flags |-> IF DictGet(cmpl.props, txt).deprecated = TRUE
                    THEN OrDeprecated(0) ELSE 0]
    ELSE [type |-> type, flags |-> IF type # 8 THEN 1 ELSE 0]

\* a column base that is never reset at a line change
DeltaBaseNoReset(line, prevLine, prevOffs) == prevOffs

\* the column the delta is taken from: 0 again on a new line
DeltaBase(line, prevLine, prevOffs) == IF line # prevLine THEN 0 ELSE prevOffs

\* the loop of semantic_tokens over the sorted candidates
RECURSIVE EncodeLoop(_, _, _, _, _)
EncodeLoop(cmpl, stkns, prevLine, prevOffs0, data) ==
    IF stkns = <<>> THEN data
    ELSE LET line == stkns[1][1][1] - 1
             offs == stkns[1][1][2] - 1
             prevOffs == DeltaBase(line, prevLine, prevOffs0)
             txt == stkns[1][2].text
             c == Classify(cmpl, txt, stkns[1][3])
             valu == <<line - prevLine, offs - prevOffs, Len(txt), c.type, c.flags>>
         IN EncodeLoop(cmpl, Tail(stkns), line, offs, data \o valu)

\* semantic_tokens(ls, params): SemanticTokens.data
semantic_tokens(cmpl, candidates) == EncodeLoop(cmpl, SortTkns(candidates), 0, 0, <<>>)

\* ---------------------------------------------------------- document_symbol

\* the DocumentSymbol document_symbol appends for one top-level kid
SymbolOf(kid) ==
    IF kid.kind \in {"Function", "SetVarOper"}
    THEN <<[name |-> kid.kids[1].text,
            kind |-> IF kid.kind = "Function" THEN "Function" ELSE "Variable",
            range |-> [start |-> [line |-> kid.lines[1] - 1, character |-> 0],
                       end |-> [line |-> kid.lines[2] - 1, character |-> 0]]]>>
    ELSE <<>>

\* --------------------------------------------------------------- lsinit

\* what the cache file may hold when the server starts
File(exists, byts) == [exists |-> exists, byts |-> byts]
CacheStates ==
    {File(FALSE, <<>>), File(TRUE, <<>>), File(TRUE, msgpack_en(OldCompletions)),
     File(TRUE, msgpack_en(loadCompletions))}

Returned(handler, resp) == [handler |-> handler, resp |-> resp]

\* lsinit up to its first await: the configuration request is sent
lsinit_start ==
    /\ initpc = "idle"
    /\ initpc' = "config"
    /\ last' = Returned("lsinit", "await get_configuration_async")
    /\ UNCHANGED <<diagnostics, query, completions, tkns, docs, cache, built, symtask>>

\* a configuration step that loads any snapshot the file holds, whatever its version
lsinit_config_anyversion ==
    /\ initpc = "config"
    /\ \E config \in {<<>>, <<"/data">>} :
        IF ~cache.exists \/ Len(cache.byts) = 0
        THEN /\ initpc' = "build"
             /\ last' = Returned("lsinit", "await saveCompletions")
             /\ UNCHANGED completions
        ELSE /\ completions' = msgpack_un(cache.byts)
             /\ initpc' = "done"
             /\ last' = Returned("lsinit", "storm ready")
    /\ UNCHANGED <<diagnostics, query, tkns, docs, cache, built, symtask>>

\* the configuration arrives: the cache is read, or a rebuild is awaited
lsinit_config ==
    /\ initpc = "config"
    /\ \E config \in {<<>>, <<"/data">>} :
        IF ~cache.exists \/ Len(cache.byts) = 0
        THEN /\ initpc' = "build"
             /\ last' = Returned("lsinit", "await saveCompletions")
             /\ UNCHANGED completions
        ELSE LET stored == msgpack_un(cache.byts)
             IN IF stored.version # verstring
                THEN /\ initpc' = "build"
                     /\ last' = Returned("lsinit", "await saveCompletions")
                     /\ UNCHANGED completions
                ELSE /\ completions' = stored
                     /\ initpc' = "done"
                     /\ last' = Returned("lsinit", "storm ready")
    /\ UNCHANGED <<diagnostics, query, tkns, docs, cache, built, symtask>>

\* saveCompletions up to the exit of its async with: the index is built from
\* the test core and written to the cache file
saveCompletions ==
    /\ initpc = "build"
    /\ built' = loadCompletions
    /\ cache' = File(TRUE, msgpack_en(loadCompletions))
    /\ initpc' = "teardown"
    /\ last' = Returned("lsinit", "await core.fini")
    /\ UNCHANGED <<diagnostics, query, completions, tkns, docs, symtask>>

\* saveCompletions returns and lsinit publishes the index
lsinit_finish ==
    /\ initpc = "teardown"
    /\ completions' = built
    /\ built' = None
    /\ initpc' = "done"
    /\ last' = Returned("lsinit", "storm ready")
    /\ UNCHANGED <<diagnostics, query, tkns, docs, cache, symtask>>

\* ----------------------------------------------------------- did_change

TextDocument(uri, version, source) == [uri |-> uri, version |-> version, source |-> source]

\* did_change(ls, params) on the workspace as wdocs: parse, then publish every
\* entry of ls.diagnostics (nothing is published when parse raises)
did_change(wdocs, uri) ==
    LET r == parse(ls, wdocs[uri])
    IN /\ diagnostics' = r.diagnostics
       /\ query' = r.query
       /\ completions' = r.completions
       /\ tkns' = r.tkns
       /\ docs' = wdocs
       /\ last' = Returned("did_change",
                      [doc |-> wdocs[uri], raised |-> r.raised,
                       published |-> IF r.raised THEN {} ELSE DictKeys(r.diagnostics),
                       rewalk |-> /\ last.handler = "did_change"
                                  /\ last.resp.doc = wdocs[uri]
                                  /\ ~last.resp.raised])
       /\ UNCHANGED <<cache, initpc, built, symtask>>

\* textDocument/didOpen: the workspace takes the document, the handler runs
DidOpen(sources) ==
    \E uri \in URIS, source \in sources :
        /\ docs[uri] = None
        /\ did_change([docs EXCEPT ![uri] = TextDocument(uri, 1, source)], uri)

\* textDocument/didChange: the workspace takes the new text and version
DidChange(sources) ==
    \E uri \in URIS, source \in sources :
        /\ docs[uri] # None
        /\ docs[uri].version < MaxVersion
        /\ did_change([docs EXCEPT ![uri] =
               TextDocument(uri, docs[uri].version + 1, source)], uri)

\* textDocument/didSave: the handler runs on the unchanged document
DidSave ==
    \E uri \in URIS :
        /\ docs[uri] # None
        /\ did_change(docs, uri)

\* ------------------------------------------------------ request handlers

\* cursor columns the client asks about
Cursors == {4, 13}

Hover ==
    \E uri \in URIS :
        /\ docs[uri] # None
        /\ \E line \in 0..(Len(DocLines(docs[uri])) - 1), character \in Cursors :
            last' = Returned("hover", hover(completions, docs[uri], line, character))
        /\ UNCHANGED <<diagnostics, query, completions, tkns, docs, cache, initpc,
                       built, symtask>>

\* textDocument/completion at one of the cursor columns; the position asked
\* about is kept with the answer
AutocompleteAt(cursors) ==
    \E uri \in URIS :
        /\ docs[uri] # None
        /\ \E line \in 0..(Len(DocLines(docs[uri])) - 1), character \in cursors :
            last' = [handler |-> "autocomplete",
                     resp |-> autocomplete(completions, docs[uri], line, character),
                     uri |-> uri, line |-> line, character |-> character]
        /\ UNCHANGED <<diagnostics, query, completions, tkns, docs, cache, initpc,
                       built, symtask>>

Autocomplete ==
    \E uri \in URIS :
        /\ docs[uri] # None
        /\ \E line \in 0..(Len(DocLines(docs[uri])) - 1), character \in Cursors :
            last' = Returned("autocomplete",
                             autocomplete(completions, docs[uri], line, character))
        /\ UNCHANGED <<diagnostics, query, completions, tkns, docs, cache, initpc,
                       built, symtask>>

SemanticTokens ==
    /\ last' = Returned("semantic_tokens", semantic_tokens(completions, tkns))
    /\ UNCHANGED <<diagnostics, query, completions, tkns, docs, cache, initpc,
                   built, symtask>>

\* document_symbol up to its first await asyncio.sleep(0)
DocumentSymbol ==
    /\ symtask = None
    /\ IF query = None
       THEN /\ last' = Returned("document_symbol", None)
            /\ UNCHANGED symtask
       ELSE IF query.kids = <<>>
       THEN /\ last' = Returned("document_symbol", <<>>)
            /\ UNCHANGED symtask
       ELSE /\ symtask' = [kids |-> query.kids, retn |-> <<>>]
            /\ last' = Returned("document_symbol", "await asyncio.sleep")
    /\ UNCHANGED <<diagnostics, query, completions, tkns, docs, cache, initpc, built>>

\* document_symbol resumed: one kid is recorded, then it awaits again or returns
DocumentSymbolResume ==
    /\ symtask # None
    /\ LET retn == symtask.retn \o SymbolOf(Head(symtask.kids))
           rest == Tail(symtask.kids)
       IN IF rest = <<>>
          THEN /\ symtask' = None
               /\ last' = Returned("document_symbol", retn)
          ELSE /\ symtask' = [kids |-> rest, retn |-> retn]
               /\ last' = Returned("document_symbol", "await asyncio.sleep")
    /\ UNCHANGED <<diagnostics, query, completions, tkns, docs, cache, initpc, built>>

\* ------------------------------------------------------- specifications

\* StormLanguageServer.__init__, an empty workspace, any cache file
Init ==
    /\ diagnostics = EmptyDict
    /\ query = None
    /\ completions = EmptyCompletions
    /\ tkns = <<>>
    /\ docs = [uri \in URIS |-> None]
    /\ cache \in CacheStates
    /\ initpc = "idle"
    /\ built = None
    /\ symtask = None
    /\ last = Returned("none", None)

Next ==
    \/ lsinit_start
    \/ lsinit_config
    \/ saveCompletions
    \/ lsinit_finish
    \/ DidOpen(Sources)
    \/ DidChange(Sources)
    \/ DidSave
    \/ Hover
    \/ Autocomplete
    \/ SemanticTokens
    \/ DocumentSymbol
    \/ DocumentSymbolResume

\* the event loop: any handler may take the next step
Spec == Init /\ [][Next]_vars

\* The walk of one document: the workspace holds one text out of a wider
\* family, the index is the pre-build one or the published one, and the
\* handler runs on it again and again.
FuncSeqs == SeqOfLen({"foo", "bar"} \X {"ab", "c"}, MaxFuncs) \ {<<>>}
WideSources ==
    {TextFuncs(funcs) : funcs \in FuncSeqs}
    \cup {TextErr(line, column, token) :
            line \in 1..MaxLine, column \in 1..MaxCol, token \in {<<>>, <<"}">>, <<"}}">>}}
    \cup {TextMain, TextRet, TextDup, TextCall}
    \cup {TextEdge(shape) : shape \in {"yield", "yieldn2", "lift", "empty", "var"}}
    \cup {TextCallHead(head) : head \in {"lib.len", "lib.null", "lib.legacy.val", "lib.ver"}}

UriA == CHOOSE uri \in URIS : TRUE

InitWalk ==
    /\ diagnostics = EmptyDict
    /\ query = None
    /\ \/ completions = EmptyCompletions /\ initpc = "idle"
       \/ completions = loadCompletions /\ initpc = "done"
    /\ tkns = <<>>
    /\ \E source \in WideSources :
        docs = [uri \in URIS |-> IF uri = UriA THEN TextDocument(uri, 1, source) ELSE None]
    /\ cache = File(TRUE, msgpack_en(loadCompletions))
    /\ built = None
    /\ symtask = None
    /\ last = Returned("none", None)

NextWalk ==
    \/ DidSave
    \/ SemanticTokens

SpecWalk == InitWalk /\ [][NextWalk]_vars

\* The encoding of one candidate list: ls.tkns is any list of candidates.
Candidates ==
    {Tkn([lines |-> <<line, line>>, columns |-> <<col, col>>], node, type) :
        line \in 1..MaxLine, col \in 1..MaxCol,
        node \in {Leaf("VarDeref", "lib.null", 1, 1)}, type \in {0, 8}}

InitEnc ==
    /\ diagnostics = EmptyDict
    /\ query = None
    /\ completions = loadCompletions
    /\ initpc = "done"
    /\ tkns \in SeqOfLen(Candidates, MaxTkns)
    /\ docs = [uri \in URIS |-> None]
    /\ cache = File(TRUE, msgpack_en(loadCompletions))
    /\ built = None
    /\ symtask = None
    /\ last = Returned("none", None)

NextEnc == SemanticTokens

SpecEnc == InitEnc /\ [][NextEnc]_vars

\* The hover of one word: the workspace holds a one-word text, the index is
\* the pre-build one or the published one, and the Symbol Table is any table
\* of up to MaxHoverFuncs functions.
MaxHoverFuncs == 2
HoverWords ==
    {"$lib.len", "$lib.old", "$lib.ver", "$lib.legacy.val", "lib.len",
     "inet:ip:asn", ":inet:ip:asn", "$inet:ip:asn", "old:form:seen",
     "inet:ip", "old:form", "int", "help", "foo", "$foo", "nothing", ":"}
FuncTables ==
    {[i \in DOMAIN names |->
         [k |-> names[i],
          v |-> [body |-> "{}", start |-> i, end |-> i, args |-> <<>>]]] :
        names \in {ns \in SeqOfLen({"foo", "help", "int"}, MaxHoverFuncs) :
                      \A i, j \in DOMAIN ns : i # j => ns[i] # ns[j]}}

InitHover ==
    /\ diagnostics = EmptyDict
    /\ query = None
    /\ \E functions \in FuncTables :
        \/ /\ completions = [EmptyCompletions EXCEPT !.functions = functions]
           /\ initpc = "idle"
        \/ /\ completions = [loadCompletions EXCEPT !.functions = functions]
           /\ initpc = "done"
    /\ tkns = <<>>
    /\ \E word \in HoverWords :
        docs = [uri \in URIS |->
                   IF uri = UriA THEN TextDocument(uri, 1, TextWord(word)) ELSE None]
    /\ cache = File(TRUE, msgpack_en(loadCompletions))
    /\ built = None
    /\ symtask = None
    /\ last = Returned("none", None)

NextHover == Hover

SpecHover == InitHover /\ [][NextHover]_vars

\* The completion inside one function: the workspace holds a text with one
\* function on lines sline..eline, the handler walks it, and the client asks
\* for completions on every line.
SpanSources ==
    {TextSpan(params, sline, eline) :
        params \in {"ab", "c"}, sline \in 1..MaxLine, eline \in 1..MaxLine}
SpanCursors == {4, 8, 28, 32}

InitComplete ==
    /\ diagnostics = EmptyDict
    /\ query = None
    /\ \/ completions = EmptyCompletions /\ initpc = "idle"
       \/ completions = loadCompletions /\ initpc = "done"
    /\ tkns = <<>>
    /\ \E source \in {src \in SpanSources : src.sline <= src.eline} :
        docs = [uri \in URIS |-> IF uri = UriA THEN TextDocument(uri, 1, source) ELSE None]
    /\ cache = File(TRUE, msgpack_en(loadCompletions))
    /\ built = None
    /\ symtask = None
    /\ last = Returned("none", None)

NextComplete ==
    \/ DidSave
    \/ AutocompleteAt(SpanCursors)

SpecComplete == InitComplete /\ [][NextComplete]_vars

\* ---------------------------------------------------------------- claims

OtherHandlers ==
    {"did_change", "hover", "autocomplete", "document_symbol", "semantic_tokens"}
InitRunning == initpc \in {"config", "build", "teardown"}
IndexEmpty(cmpl) ==
    /\ cmpl.libs = EmptyDict
    /\ cmpl.formtypes = EmptyDict
    /\ cmpl.props = EmptyDict
    /\ cmpl.cmds = EmptyDict

\* C1: Initialization barrier.  While lsinit is between its start and the
\* assignment of the finished index to ls.completions, the handler that ran
\* last is lsinit itself (no other handler is serviced), and once lsinit has
\* begun no other handler runs on the empty pre-build index.
C1_InitBarrier ==
    /\ InitRunning => last.handler = "lsinit"
    /\ (initpc # "idle" /\ last.handler \in OtherHandlers) => ~IndexEmpty(completions)

\* the last handler was did_change and its parse walked a tree to the end
Walked ==
    /\ last.handler = "did_change"
    /\ ~last.resp.raised
    /\ parseQuery(last.resp.doc.source).ok
WalkedKids == parseQuery(last.resp.doc.source).query.kids
WalkedDiagnostics == DictGet(diagnostics, last.resp.doc.uri)[2]
FuncName(kid) == kid.kids[1].text
\* the first top-level function of the document with the name of kids[j]
FirstOf(kids, j) ==
    CHOOSE i \in 1..j :
        /\ kids[i].kind = "Function"
        /\ FuncName(kids[i]) = FuncName(kids[j])
        /\ \A k \in 1..(i - 1) :
            kids[k].kind = "Function" => FuncName(kids[k]) # FuncName(kids[j])
IsDuplicate(kids, j) == kids[j].kind = "Function" /\ FirstOf(kids, j) < j

\* C2: first-seen wins.  After parse, for every top-level function f2 whose
\* name an earlier top-level function f1 (the first of that name) already has:
\* the Symbol Table holds exactly one entry of that name, with f1's start and
\* end lines and f1's parameters, and among the diagnostics exactly one lies in
\* f2's span and says the name is already defined; it is on f2's first line
\* and names f1's starting line.
C2_FirstSeenWins ==
    Walked =>
        \A j \in DOMAIN WalkedKids :
            IsDuplicate(WalkedKids, j) =>
                LET f1 == WalkedKids[FirstOf(WalkedKids, j)]
                    f2 == WalkedKids[j]
                    name == FuncName(f2)
                    funcs == completions.functions
                    diags == WalkedDiagnostics
                    said == "function " \o name \o " is already defined on line "
                    mine == {i \in DOMAIN diags :
                                /\ startswith(diags[i].message, said)
                                /\ diags[i].range.start.line \in
                                       (f2.lines[1] - 1)..(f2.lines[2] - 1)}
                IN /\ Cardinality({i \in DOMAIN funcs : funcs[i].k = name}) = 1
                   /\ DictGet(funcs, name).start = f1.lines[1]
                   /\ DictGet(funcs, name).end = f1.lines[2]
                   /\ Len(DictGet(funcs, name).args) = Len(f1.kids[2].kids)
                   /\ \A a \in DOMAIN f1.kids[2].kids :
                        DictGet(funcs, name).args[a].name = f1.kids[2].kids[a].text
                   /\ Cardinality(mine) = 1
                   /\ \A i \in mine :
                        /\ diags[i].range.start.line = f2.lines[1] - 1
                        /\ diags[i].message = said \o ToString(f1.lines[1])

\* C2's case: function foo(a, b=(1)) and then function foo(c) were walked
C2_Witness ==
    /\ Walked
    /\ last.resp.doc.source = TextDup
    /\ IsDuplicate(WalkedKids, 2)
    /\ Len(WalkedDiagnostics) = 1

\* the absolute 0-based (line, col) of each 5-tuple of an encoded sequence
RECURSIVE Decode(_, _, _)
Decode(data, line, col) ==
    IF Len(data) < 5 THEN <<>>
    ELSE LET line1 == line + data[1]
             col1 == (IF data[1] # 0 THEN 0 ELSE col) + data[2]
         IN <<<<line1, col1>>>> \o Decode(SubSeq(data, 6, Len(data)), line1, col1)
Count(seq, x) == Cardinality({i \in DOMAIN seq : seq[i] = x})
ZeroBased(candidates) ==
    [i \in DOMAIN candidates |-> <<candidates[i][1][1] - 1, candidates[i][1][2] - 1>>]

\* C3: delta-encoding round-trips.  The sequence semantic_tokens returns has
\* five integers per candidate of ls.tkns, and decoding it gives the
\* candidates' 0-based (line, col) in ascending order: the decoded positions
\* are ascending and are the candidates' positions, each as often as it occurs.
C3_RoundTrip ==
    last.handler = "semantic_tokens" =>
        LET data == last.resp
            dec == Decode(data, 0, 0)
            want == ZeroBased(tkns)
        IN /\ Len(data) = 5 * Len(tkns)
           /\ Len(dec) = Len(tkns)
           /\ \A i \in 1..(Len(dec) - 1) : PosLeq(dec[i], dec[i + 1])
           /\ \A i \in DOMAIN want : Count(dec, want[i]) = Count(want, want[i])

\* C3's case: a list given out of order, over two lines, has been encoded
C3_Witness ==
    /\ last.handler = "semantic_tokens"
    /\ Len(tkns) >= 2
    /\ tkns[1][1][1] > tkns[2][1][1]
    /\ tkns[2][1][2] > 1
    /\ Len(last.resp) = 5 * Len(tkns)

\* C4: return($lib.null).  After the walk of this one statement the document
\* has exactly one diagnostic, the one preferring return(), and its range is
\* the span of the $lib.null argument.
C4_ReturnNullOneDiagnostic ==
    (Walked /\ last.resp.doc.source = TextRet) =>
        LET arg == WalkedKids[1].kids[1]
        IN /\ Len(WalkedDiagnostics) = 1
           /\ WalkedDiagnostics[1].message = "Prefer 'return()' over 'return($lib.null)'"
           /\ WalkedDiagnostics[1].range =
                [start |-> [line |-> arg.lines[1] - 1, character |-> arg.columns[1] - 1],
                 end |-> [line |-> arg.lines[2] - 1, character |-> arg.columns[2] - 1]]

\* s contains sub
Contains(s, sub) ==
    \E i \in 1..(Len(s) - Len(sub) + 1) : SubSeq(s, i, i + Len(sub) - 1) = sub
DeprecatedLib(key) ==
    DictHas(completions.libs, key) /\ DictGet(completions.libs, key).deprecated = TRUE

\* C5: deprecated everywhere.  For a library key the index flags deprecated:
\* every completion item for the key carries the Deprecated tag, every hover
\* for the key has a line marking it deprecated, and every token whose node
\* text is the key has the deprecated bit (1) in its modifiers.
C5_DeprecatedEverywhere ==
    /\ last.handler = "autocomplete" =>
           \A i \in DOMAIN last.resp :
               ("detail" \in DOMAIN last.resp[i] /\ DeprecatedLib(last.resp[i].label))
                   => \E t \in DOMAIN last.resp[i].tags :
                          last.resp[i].tags[t] = Deprecated
    /\ (last.handler = "hover" /\ "contents" \in DOMAIN last.resp
            /\ DeprecatedLib(last.resp.contents.value[1]))
           => \E l \in DOMAIN last.resp.contents.value :
                  Contains(last.resp.contents.value[l], "deprecated")
    /\ last.handler = "semantic_tokens" =>
           \A i \in DOMAIN tkns :
               DeprecatedLib("$" \o SortTkns(tkns)[i][2].text)
                   => last.resp[5 * i] % 2 = 1

\* the cache file is missing, empty, or holds a snapshot of another version
CacheMiss(file) ==
    IF ~file.exists \/ Len(file.byts) = 0 THEN TRUE
    ELSE msgpack_un(file.byts).version # verstring
HoldsRunningVersion(file) ==
    /\ file.exists
    /\ Len(file.byts) > 0
    /\ msgpack_un(file.byts).version = verstring

\* C6: cache load-or-build.  Whatever the cache file held at start, once
\* lsinit has completed the published index has the running version; when
\* lsinit leaves its configuration step it goes on to a rebuild exactly when
\* the file is missing, empty or of another version, and otherwise completes
\* at once with the stored snapshot and leaves the file alone; and when the
\* rebuild step is over the file holds a snapshot of the running version.
C6_LoadOrBuild ==
    /\ [](initpc = "done" => completions.version = verstring)
    /\ [][(initpc = "config" /\ initpc' # "config") =>
            IF CacheMiss(cache)
            THEN initpc' = "build"
            ELSE /\ initpc' = "done"
                 /\ cache' = cache
                 /\ completions'.libs = msgpack_un(cache.byts).libs]_vars
    /\ [][(initpc = "build" /\ initpc' # "build") => HoldsRunningVersion(cache')]_vars

\* C6's case: a rebuild has run and has written the cache file
C6_Witness ==
    /\ initpc = "teardown"
    /\ built # None
    /\ built.version = verstring
    /\ HoldsRunningVersion(cache)

\* the last handler was did_change and the parser raised BadSyntax
SyntaxFailed ==
    /\ last.handler = "did_change"
    /\ ~parseQuery(last.resp.doc.source).ok

\* C7: the syntax-error diagnostic.  When the parser raised BadSyntax with
\* (line, column, optional token), the document's entry holds exactly one
\* diagnostic, of severity Error, on line line-1, from character column-1 to
\* character column-1+len(token), the token being "1" when absent.
C7_SyntaxErrorRange ==
    SyntaxFailed =>
        LET items == parseQuery(last.resp.doc.source).items
            token == IF DictHas(items, "token") THEN DictGet(items, "token") ELSE "1"
            line == DictGet(items, "line")
            column == DictGet(items, "column")
            diags == WalkedDiagnostics
        IN /\ Len(diags) = 1
           /\ diags[1].severity = "Error"
           /\ diags[1].range.start = [line |-> line - 1, character |-> column - 1]
           /\ diags[1].range.end =
                [line |-> line - 1, character |-> column - 1 + Len(token)]

\* C8: state retained on syntax error.  A step in which did_change fails with
\* BadSyntax on the document the step before walked successfully leaves
\* ls.query, completions['functions'] and ls.tkns as they were, and replaces
\* the document's diagnostics by the single Error diagnostic.
C8_StateRetained ==
    [][(/\ Walked
        /\ last'.handler = "did_change"
        /\ last'.resp.doc.uri = last.resp.doc.uri
        /\ ~parseQuery(last'.resp.doc.source).ok)
       => /\ query' = query
          /\ completions'.functions = completions.functions
          /\ tkns' = tkns
          /\ Len(DictGet(diagnostics', last'.resp.doc.uri)[2]) = 1
          /\ DictGet(diagnostics', last'.resp.doc.uri)[2][1].severity = "Error"]_vars

\* C9: per-document isolation.  A step in which did_change walks a document B
\* (successfully or not), taken right after a successful walk of another
\* document A, leaves A's diagnostics entry, and the tree, the Symbol Table
\* and the highlight candidates served for A, as A's own walk left them.
C9_DocumentIsolation ==
    [][(/\ Walked
        /\ last'.handler = "did_change"
        /\ last'.resp.doc.uri # last.resp.doc.uri)
       => /\ DictGet(diagnostics', last.resp.doc.uri)
                = DictGet(diagnostics, last.resp.doc.uri)
          /\ query' = query
          /\ completions'.functions = completions.functions
          /\ tkns' = tkns]_vars

\* C10: determinism of re-walk.  A step in which did_change walks again the
\* unchanged document the step before walked successfully does not raise and
\* leaves the document's diagnostics list, the Symbol Table, the highlight
\* candidates, and so the encoded token sequence, as the first walk left them.
C10_RewalkDeterministic ==
    [][(/\ Walked
        /\ last'.handler = "did_change"
        /\ last'.resp.rewalk)
       => /\ ~last'.resp.raised
          /\ DictGet(diagnostics', last.resp.doc.uri)[2] = WalkedDiagnostics
          /\ completions'.functions = completions.functions
          /\ tkns' = tkns
          /\ semantic_tokens(completions', tkns') = semantic_tokens(completions, tkns)]_vars

\* C10's case: a document with a duplicate function was walked twice in a row
C10_Witness ==
    /\ Walked
    /\ last.resp.rewalk
    /\ last.resp.doc.source = TextDup
    /\ Len(WalkedDiagnostics) = 1
    /\ DictHas(completions.functions, "$foo") \/ DictHas(completions.functions, "foo")

\* the word hover resolves: the word under the cursor less a leading ':'
HoveredWord ==
    LET word == docs[UriA].source.word
    IN IF startswith(word, ":") THEN SubSeq(word, 2, Len(word)) ELSE word
\* the name without its sigil
BareName(word) ==
    IF startswith(word, "$") THEN SubSeq(word, 2, Len(word)) ELSE word
\* the first hit in the order libraries (a sigiled word only), properties (by
\* bare name), form types, commands, functions
FirstHit(cmpl, word) ==
    IF startswith(word, "$") /\ DictHas(cmpl.libs, word)
    THEN DictGet(cmpl.libs, word)
    ELSE IF DictHas(cmpl.props, BareName(word))
    THEN DictGet(cmpl.props, BareName(word))
    ELSE IF DictHas(cmpl.formtypes, word)
    THEN DictGet(cmpl.formtypes, word)
    ELSE IF DictHas(cmpl.cmds, word)
    THEN DictGet(cmpl.cmds, word)
    ELSE IF DictHas(cmpl.functions, word)
    THEN DictGet(cmpl.functions, word)
    ELSE None
HasDoc(info) == "doc" \in DOMAIN info /\ info.doc # ""

\* C11: hover resolution order.  The hover of a word is absent when nothing
\* matches and when the first hit, in the order libraries (sigiled word only),
\* properties (bare name: sigil and leading ':' stripped), form types,
\* commands, Symbol Table functions, has no documentation text; otherwise it
\* is a Hover for the word.
C11_HoverOrder ==
    (last.handler = "hover" /\ docs[UriA] # None /\ docs[UriA].source.text = "word") =>
        LET hit == FirstHit(completions, HoveredWord)
        IN IF hit = None \/ ~HasDoc(hit)
           THEN last.resp = None
           ELSE /\ "contents" \in DOMAIN last.resp
                /\ last.resp.contents.value[1] = HoveredWord

\* the last handler was autocomplete, on a sigiled word of a one-function text
\* whose walk built the Symbol Table
AskedAbout ==
    wordAtCursor(last.line, DocLines(docs[last.uri])[last.line + 1], last.character)
CompletedInSpan ==
    /\ last.handler = "autocomplete"
    /\ "uri" \in DOMAIN last
    /\ docs[last.uri].source.text = "span"
    /\ completions.functions # EmptyDict
    /\ AskedAbout # None
    /\ startswith(AskedAbout.word, "$")
OfferedVariable(label) ==
    \E i \in DOMAIN last.resp :
        last.resp[i].kind = "Variable" /\ last.resp[i].label = label

\* C12: parameters of the enclosing function.  For a sigiled fragment, each
\* parameter of a function of the Symbol Table whose sigiled name has the
\* fragment as prefix is offered as a Variable exactly when the 0-based cursor
\* line lies in the function's span, the span's 1-based lines brought to
\* 0-based: on every line from its first to its last, and on no other.
C12_ParametersInSpan ==
    CompletedInSpan =>
        LET word == AskedAbout.word
            funcs == completions.functions
        IN \A f \in DOMAIN funcs :
            \A a \in DOMAIN funcs[f].v.args :
                startswith("$" \o funcs[f].v.args[a].name, word) =>
                    (OfferedVariable("$" \o funcs[f].v.args[a].name)
                        <=> (funcs[f].v.start - 1 <= last.line
                             /\ last.line <= funcs[f].v.end - 1))

\* the last handler was did_change on a text the parser accepted
ParsedAndWalked ==
    /\ last.handler = "did_change"
    /\ parseQuery(last.resp.doc.source).ok

\* C13: the walker never raises.  Whenever the parser returned a tree, the
\* walk of it ends without an exception, whatever the kinds and the child
\* shapes of its nodes: the handler publishes the document's diagnostics.
C13_WalkerNeverRaises ==
    ParsedAndWalked =>
        /\ ~last.resp.raised
        /\ last.resp.doc.uri \in last.resp.published

\* C14: no position ties.  After a successful walk no two candidates of
\* ls.tkns start at the same (line, col), a call whose head dereference
\* starts where the call starts included; and no encoded token but the first
\* has deltaLine = 0 and deltaCol = 0.
C14_NoPositionTies ==
    /\ Walked =>
           \A i, j \in DOMAIN tkns : i # j => tkns[i][1] # tkns[j][1]
    /\ last.handler = "semantic_tokens" =>
           \A i \in 2..Len(tkns) :
               ~(last.resp[5 * i - 4] = 0 /\ last.resp[5 * i - 3] = 0)

\* C15: the Symbol Table is changed only by parse.  A step that changes
\* completions['functions'] is a step of did_change (publishing the built or
\* cached index at the end of lsinit leaves the table of the last parse as it
\* is), and a step of did_change leaves the libs, formtypes, props, cmds and
\* version sections as they are.
C15_SymbolTableOnlyByParse ==
    [][/\ completions'.functions # completions.functions
            => last'.handler = "did_change"
       /\ last'.handler = "did_change"
            => /\ completions'.libs = completions.libs
               /\ completions'.formtypes = completions.formtypes
               /\ completions'.props = completions.props
               /\ completions'.cmds = completions.cmds
               /\ completions'.version = completions.version]_vars

====
